---- MODULE Spec2Model ----
(***************************************************************************)
(* Widgets of iced-ext as state machines.                                  *)
(*                                                                         *)
(*   src/src/multi_pick_list.rs   MultiPickList, menu::Overlay, menu::List *)
(*   src/src/square_radio.rs      SquareRadio                              *)
(*   src/src/progress_bar_ext.rs  ProgressBar                              *)
(*                                                                         *)
(* Geometry is one-dimensional (the vertical axis): a rectangle is         *)
(* [y, height], a cursor is a y coordinate or Unavailable.  Pixel values   *)
(* are integers; `x as usize` of a float is floor saturated at 0.          *)
(* Shell::request_redraw and the text paragraphs cached for measurement    *)
(* are not modelled; the Scrollable around the menu's List stays at offset *)
(* 0 (no wheel events), so a list taller than its limit is cut off.        *)
(***************************************************************************)
EXTENDS Integers, Sequences, FiniteSets, TLC

VARIABLES
    widget,      \* the MultiPickList struct of the current frame
    state,       \* State<P>: the persistent state slot of the pick list
    position,    \* layout.position().y of the pick list in the current layout
    cursor,      \* the host's mouse::Cursor
    shell,       \* Shell of the last callback: messages published, capture
    obs,         \* what the last pick list callback was, and what it computed
    radio,       \* the SquareRadio struct of the current frame
    radio_obs,   \* what the last SquareRadio callback was, and what it computed
    bar,         \* the ProgressBar struct, or the panic of its constructor
    bar_obs,     \* what the last ProgressBar callback was, and what it computed
    ldraw,       \* the last direct call of menu::List::draw and its outcome
    tree,        \* the state slots of the host's widget tree
    tree_obs,    \* the last operation on a state slot and its outcome
    olayout      \* the last direct call of menu::Overlay::layout and its node

vars == <<widget, state, position, cursor, shell, obs,
          radio, radio_obs, bar, bar_obs, ldraw, tree, tree_obs, olayout>>
pick_vars == <<widget, state, position, obs>>
radio_vars == <<radio, radio_obs>>
bar_vars == <<bar, bar_obs>>
tree_vars == <<tree, tree_obs>>

----------------------------------------------------------------------------
(* Bounds of the model *)

MaxOptions == 2
WinH == 6
FieldH == 1

\* option_height = line height + vertical padding (multi_pick_list.rs:1083)
OptionHeights == {2}

None == -1
Unavailable == -1

\* The caller's option values, listed so that a value differs from its index.
Universe == [i \in 1..MaxOptions |-> MaxOptions + 1 - i]
OptionLists == {SubSeq(Universe, 1, n) : n \in 0..MaxOptions}
Selections == SUBSET (1..MaxOptions)
Positions == {1, WinH - FieldH - 1}
CursorPoints == 0..(WinH - 1)

Min(a, b) == IF a < b THEN a ELSE b
Max(a, b) == IF a > b THEN a ELSE b

----------------------------------------------------------------------------
(* iced_core values used by the widgets *)

Rectangle(y, height) == [y |-> y, height |-> height]

\* mouse::Cursor::is_over
is_over(c, bounds) ==
    /\ c # Unavailable
    /\ bounds.y <= c
    /\ c < bounds.y + bounds.height

\* mouse::Cursor::position_in: the position relative to bounds, or None
position_in(c, bounds) == IF is_over(c, bounds) THEN c - bounds.y ELSE None

\* `f as usize` of a quotient of pixel values: floor, saturated at 0
as_usize_div(a, b) == IF a <= 0 THEN 0 ELSE a \div b

\* `(a / b).ceil() as usize`
ceil_as_usize_div(a, b) == IF a <= 0 THEN 0 ELSE (a + b - 1) \div b

\* Length::Fill, Length::Shrink and Length::Fixed
Fill == [kind |-> "Fill"]
Shrink == [kind |-> "Shrink"]
Fixed(px) == [kind |-> "Fixed", px |-> px]

EventKinds == {"LeftPressed", "FingerPressed", "CursorMoved", "ButtonReleased",
               "RightPressed", "ModifiersChanged", "RedrawRequested"}
Pressed == {"LeftPressed", "FingerPressed"}

NewShell == [published |-> <<>>, captured |-> FALSE]
publish(sh, m) == [sh EXCEPT !.published = Append(@, m)]
capture_event(sh) == [sh EXCEPT !.captured = TRUE]

Msg(name, option) == [name |-> name, option |-> option]
OnOpen == Msg("on_open", 0)
OnClose == Msg("on_close", 0)

----------------------------------------------------------------------------
(* MultiPickList *)

\* MultiPickList::new followed by the builders on_open / on_close
MultiPickList_new(options, selected, on_open, on_close, option_height) ==
    [options |-> options, selected |-> selected,
     on_open |-> on_open, on_close |-> on_close,
     option_height |-> option_height,
     handle |-> "Arrow",
     last_status |-> "None"]

\* MultiPickList::handle
handle(w, h) == [w EXCEPT !.handle = h]

\* State::new
State_new ==
    [is_open |-> FALSE, hovered_option |-> None, keyboard_modifiers |-> FALSE]

\* layout.bounds() of the pick list
FieldBounds(pos) == Rectangle(pos, FieldH)


\* press_while_open that forgets to reset the hovered option
press_while_open_keeps_hover(st, w, sh) ==
    [state |-> [st EXCEPT !.is_open = FALSE],
     shell |-> capture_event(IF w.on_close THEN publish(sh, OnClose) ELSE sh)]

\* update, lines 284-294: a press that reaches the pick list while it is open
press_while_open(st, w, sh) ==
    [state |-> [st EXCEPT !.is_open = FALSE, !.hovered_option = None],
     shell |-> capture_event(IF w.on_close THEN publish(sh, OnClose) ELSE sh)]

\* press_while_closed that opens wherever the cursor is
press_while_closed_anywhere(st, w, over, sh) ==
    [state |-> [st EXCEPT !.is_open = TRUE],
     shell |-> capture_event(IF w.on_open THEN publish(sh, OnOpen) ELSE sh)]

\* update, lines 295-303: a press while the pick list is closed
press_while_closed(st, w, over, sh) ==
    IF over
    THEN [state |-> [st EXCEPT !.is_open = TRUE],
          shell |-> capture_event(IF w.on_open THEN publish(sh, OnOpen) ELSE sh)]
    ELSE [state |-> st, shell |-> sh]

\* modifiers_changed that also closes the menu
modifiers_changed_closes(st, sh) ==
    [state |-> [st EXCEPT !.keyboard_modifiers = ~@, !.is_open = FALSE], shell |-> sh]

\* update, lines 305-307: ModifiersChanged stores the new modifiers
modifiers_changed(st, sh) ==
    [state |-> [st EXCEPT !.keyboard_modifiers = ~@], shell |-> sh]

\* update, lines 281-309: the match on the event
update_event(st, w, ev, over, sh) ==
    IF ev \in Pressed
    THEN IF st.is_open
         THEN press_while_open(st, w, sh)
         ELSE press_while_closed(st, w, over, sh)
    ELSE IF ev = "ModifiersChanged"
         THEN modifiers_changed(st, sh)
         ELSE [state |-> st, shell |-> sh]

\* update_status that lets the hover win over the open flag
update_status_hover_first(is_open, is_hovered) ==
    IF is_hovered THEN "Hovered"
    ELSE IF is_open THEN "Opened" ELSE "Active"

\* update, lines 311-321: the status of this call
update_status(is_open, is_hovered) ==
    IF is_open
    THEN (IF is_hovered THEN "Opened_hovered" ELSE "Opened")
    ELSE IF is_hovered THEN "Hovered" ELSE "Active"

\* update, lines 323-325: a redraw stores the status in the widget
update_last_status(w, ev, status) ==
    IF ev = "RedrawRequested" THEN [w EXCEPT !.last_status = status] ELSE w

\* MultiPickList::update
MultiPickList_update(w, st, ev, bounds, c, sh) ==
    LET m == update_event(st, w, ev, is_over(c, bounds), sh)
        status == update_status(m.state.is_open, is_over(c, bounds))
    IN  [widget |-> update_last_status(w, ev, status), state |-> m.state,
         shell |-> m.shell, status |-> status]

\* MultiPickList::mouse_interaction
MultiPickList_mouse_interaction(bounds, c) ==
    IF is_over(c, bounds) THEN "Pointer" ELSE "Default"

\* MultiPickList::draw, line 360: the status the style is taken for
draw_status(w) == IF w.last_status = "None" THEN "Active" ELSE w.last_status

\* draw_handle that shows the icon of the other state
draw_handle_swapped(w, st) ==
    CASE w.handle = "Arrow" -> "ARROW_DOWN_ICON"
      [] w.handle = "Static" -> "static"
      [] w.handle = "Dynamic" -> (IF st.is_open THEN "closed" ELSE "open")
      [] w.handle = "None" -> "no handle"

\* MultiPickList::draw, lines 371-421: the icon drawn as the handle
draw_handle(w, st) ==
    CASE w.handle = "Arrow" -> "ARROW_DOWN_ICON"
      [] w.handle = "Static" -> "static"
      [] w.handle = "Dynamic" -> (IF st.is_open THEN "open" ELSE "closed")
      [] w.handle = "None" -> "no handle"

\* MultiPickList_overlay that returns a menu whatever the state
MultiPickList_overlay_always(st) == TRUE

\* MultiPickList::overlay: Some(menu) exactly when the state is open
MultiPickList_overlay(st) == st.is_open

----------------------------------------------------------------------------
(* menu *)

\* List::layout: the intrinsic height of the list
List_layout(w) == w.option_height * Len(w.options)

\* Overlay_node that puts the menu under the target on a tie
Overlay_node_tie_under(position_y, target_height, bounds_height, content) ==
    LET space_below == bounds_height - (position_y + target_height)
        space_above == position_y
        limit == IF space_below >= space_above THEN space_below ELSE space_above
        size == Min(content, limit)
    IN  IF space_below >= space_above
        THEN Rectangle(position_y + target_height, size)
        ELSE Rectangle(position_y - size, size)

\* Overlay::layout, lines 919-944, for a list of intrinsic height content
Overlay_node(position_y, target_height, bounds_height, content) ==
    LET space_below == bounds_height - (position_y + target_height)
        space_above == position_y
        limit == IF space_below > space_above THEN space_below ELSE space_above
        size == Min(content, limit)
    IN  IF space_below > space_above
        THEN Rectangle(position_y + target_height, size)
        ELSE Rectangle(position_y - size, size)

\* Overlay::layout: the node of the scrollable list, under or on top of the
\* target.  bounds.height is the window height; the list is a Scrollable of
\* height Shrink, so its node is the content's height cut to the limit.
Overlay_layout(pos, w) == Overlay_node(pos, FieldH, WinH, List_layout(w))

\* The layout of the List inside the Scrollable built by Overlay::new
content_bounds(pos, w) == Rectangle(Overlay_layout(pos, w).y, List_layout(w))

\* The cursor the Scrollable hands to the List: unavailable outside the
\* Scrollable's own bounds
content_cursor(c, pos, w) ==
    IF is_over(c, Overlay_layout(pos, w)) THEN c ELSE Unavailable

\* list_pressed that publishes the selection without capturing the event
list_pressed_no_capture(w, hov, over, sh) ==
    IF over /\ hov # None /\ hov < Len(w.options)
    THEN [hovered_option |-> hov,
          shell |-> publish(sh, Msg("on_select", w.options[hov + 1]))]
    ELSE [hovered_option |-> hov, shell |-> sh]

\* List::update, lines 1070-1078: left button pressed
list_pressed(w, hov, over, sh) ==
    IF over /\ hov # None /\ hov < Len(w.options)
    THEN [hovered_option |-> hov,
          shell |-> capture_event(publish(sh, Msg("on_select", w.options[hov + 1])))]
    ELSE [hovered_option |-> hov, shell |-> sh]

\* list_cursor_moved that rounds the row index up
list_cursor_moved_ceil(w, hov, pos_in, sh) ==
    IF pos_in # None
    THEN [hovered_option |-> ceil_as_usize_div(pos_in, w.option_height), shell |-> sh]
    ELSE [hovered_option |-> hov, shell |-> sh]

\* List::update, lines 1079-1099: cursor moved
list_cursor_moved(w, hov, pos_in, sh) ==
    IF pos_in # None
    THEN [hovered_option |-> as_usize_div(pos_in, w.option_height), shell |-> sh]
    ELSE [hovered_option |-> hov, shell |-> sh]

\* List::update, lines 1100-1115: finger pressed
list_finger_pressed(w, hov, pos_in, sh) ==
    IF pos_in # None
    THEN LET index == as_usize_div(pos_in, w.option_height)
         IN  [hovered_option |-> index,
              shell |-> IF index < Len(w.options)
                        THEN capture_event(publish(sh, Msg("on_select", w.options[index + 1])))
                        ELSE sh]
    ELSE [hovered_option |-> hov, shell |-> sh]

\* List::update, lines 1069-1117
List_update(w, hov, ev, bounds, c, sh) ==
    CASE ev = "LeftPressed" -> list_pressed(w, hov, is_over(c, bounds), sh)
      [] ev = "CursorMoved" -> list_cursor_moved(w, hov, position_in(c, bounds), sh)
      [] ev = "FingerPressed" -> list_finger_pressed(w, hov, position_in(c, bounds), sh)
      [] OTHER -> [hovered_option |-> hov, shell |-> sh]

\* Overlay::update: the event goes to the Scrollable and through it to the List
Overlay_update(w, st, ev, pos, c, sh) ==
    List_update(w, st.hovered_option, ev, content_bounds(pos, w),
                content_cursor(c, pos, w), sh)

\* is_selected that looks the row index up in the selection
is_selected_by_index(w, i) == (i + 1) \in w.selected

\* List::draw, line 1173: an option is ticked when the caller's selection holds it
is_selected(w, i) == w.options[i + 1] \in w.selected

\* List::draw, lines 1165-1166: the first visible row
visible_start(bounds, viewport, option_height) ==
    as_usize_div(viewport.y - bounds.y, option_height)

\* List::draw, lines 1165-1167: one past the last visible row
visible_end(bounds, viewport, option_height) ==
    ceil_as_usize_div(viewport.y - bounds.y + viewport.height, option_height)

\* List::draw, lines 1176-1181: the bounds of row i
option_bounds(bounds, i, option_height) ==
    Rectangle(bounds.y + option_height * i, option_height)

\* List::draw: the rows drawn, those ticked and those highlighted; the slice
\* options[start..end.min(len)] panics when start is past its end
List_draw(w, hov, bounds, viewport) ==
    LET start == visible_start(bounds, viewport, w.option_height)
        end == visible_end(bounds, viewport, w.option_height)
        stop == Min(end, Len(w.options))
        rows == start..(stop - 1)
    IN  IF start > stop
        THEN [panicked |-> TRUE, rows |-> {}, ticked |-> {}, highlighted |-> {},
              quads |-> {}]
        ELSE [panicked |-> FALSE, rows |-> rows,
              ticked |-> {i \in rows : is_selected(w, i)},
              highlighted |-> {i \in rows : hov = i},
              quads |-> {option_bounds(bounds, i, w.option_height) :
                            i \in {k \in rows : hov = k}}]

NoDraw ==
    [panicked |-> FALSE, rows |-> {}, ticked |-> {}, highlighted |-> {}, quads |-> {}]

\* Overlay::draw: the Scrollable draws the List with its own bounds as the
\* viewport, and draws nothing when it has no area
Overlay_draw(w, hov, pos) ==
    IF Overlay_layout(pos, w).height > 0
    THEN List_draw(w, hov, content_bounds(pos, w), Overlay_layout(pos, w))
    ELSE NoDraw

----------------------------------------------------------------------------
(* The host's calls of the pick list *)

Obs(op) ==
    [op |-> op, event |-> "none", route |-> "none", status |-> "None",
     style |-> "None", handle |-> "None", interaction |-> "None", overlay |-> FALSE,
     list |-> NoDraw]

\* The application's view is called again: a new MultiPickList for the next
\* frame, with the application's current options and selection and the same
\* callbacks; the host's tree keeps the state slot.
New(lists, selections) ==
    /\ \E o \in lists, s \in selections :
            widget' = MultiPickList_new(o, s, widget.on_open, widget.on_close,
                                        widget.option_height)
    /\ shell' = NewShell
    /\ obs' = Obs("new")
    /\ UNCHANGED <<state, position, cursor, radio_vars, bar_vars, ldraw, tree_vars, olayout>>

\* MultiPickList::layout: the host lays the widget out, here or elsewhere
Layout ==
    /\ \E pos \in Positions : position' = pos
    /\ shell' = NewShell
    /\ obs' = Obs("layout")
    /\ UNCHANGED <<widget, state, cursor, radio_vars, bar_vars, ldraw, tree_vars, olayout>>

\* The host delivers event ev with the cursor at c: to the overlay first when
\* the menu is open, and to MultiPickList::update unless the overlay captured
\* it (multi_pick_list.rs:285).
Deliver(ev, c) ==
    \E o \in {IF MultiPickList_overlay(state)
               THEN Overlay_update(widget, state, ev, position, c, NewShell)
               ELSE [hovered_option |-> state.hovered_option, shell |-> NewShell]} :
    \E b \in {IF o.shell.captured
               THEN [widget |-> widget,
                     state |-> [state EXCEPT !.hovered_option = o.hovered_option],
                     shell |-> o.shell, status |-> "None"]
               ELSE MultiPickList_update(
                        widget, [state EXCEPT !.hovered_option = o.hovered_option],
                        ev, FieldBounds(position), c, o.shell)} :
        /\ cursor' = c
        /\ widget' = b.widget
        /\ state' = b.state
        /\ shell' = b.shell
        /\ obs' = [Obs("update") EXCEPT
                     !.event = ev,
                     !.route = IF ~MultiPickList_overlay(state) THEN "widget"
                               ELSE IF o.shell.captured THEN "overlay"
                               ELSE "overlay+widget",
                     !.status = b.status]
        /\ UNCHANGED <<position, radio_vars, bar_vars, ldraw, tree_vars, olayout>>

\* An event of the host: a cursor move or a touch brings its own position
Update(events) ==
    \E ev \in events :
        IF ev \in {"CursorMoved", "FingerPressed"}
        THEN \E c \in CursorPoints : Deliver(ev, c)
        ELSE Deliver(ev, cursor)

\* MultiPickList::mouse_interaction
MouseInteraction ==
    /\ shell' = NewShell
    /\ obs' = [Obs("mouse_interaction") EXCEPT
                 !.interaction = MultiPickList_mouse_interaction(FieldBounds(position), cursor)]
    /\ UNCHANGED <<widget, state, position, cursor, radio_vars, bar_vars, ldraw, tree_vars, olayout>>

\* MultiPickList::overlay: Some(menu) when the state is open
Overlay ==
    /\ shell' = NewShell
    /\ obs' = [Obs("overlay") EXCEPT !.overlay = MultiPickList_overlay(state)]
    /\ UNCHANGED <<widget, state, position, cursor, radio_vars, bar_vars, ldraw, tree_vars, olayout>>

\* MultiPickList::draw, and Overlay::draw when the overlay exists
Draw ==
    /\ shell' = NewShell
    /\ obs' = [Obs("draw") EXCEPT
                 !.style = draw_status(widget),
                 !.handle = draw_handle(widget, state),
                 !.overlay = MultiPickList_overlay(state),
                 !.list = IF MultiPickList_overlay(state)
                          THEN Overlay_draw(widget, state.hovered_option, position)
                          ELSE NoDraw]
    /\ UNCHANGED <<widget, state, position, cursor, radio_vars, bar_vars, ldraw, tree_vars, olayout>>

----------------------------------------------------------------------------
(* SquareRadio.  The radio is laid out along the horizontal axis: the y and *)
(* height of its rectangles are the x and the width of the source.          *)

DEFAULT_SIZE == 16
DEFAULT_SPACING == 8

RadioValues == 1..2
RadioSelections == {None} \cup RadioValues
RadioOrigins == {2}
LabelWidths == {10}
RadioCursorPoints == {0, 5, 20, 30, 40}
RadioEvents == EventKinds

\* Status::Active { is_selected } and Status::Hovered { is_selected }
RadioStatus(kind, selected) == [kind |-> kind, is_selected |-> selected]

RadioWidths == {Fill, Fixed(40)}
RadioMaxWidths == {60}

\* SquareRadio::new followed by the builder label
SquareRadio_new(value, selection, label) ==
    [is_selected |-> (value = selection),
     on_click |-> Msg("on_click", value),
     size |-> DEFAULT_SIZE,
     width |-> Shrink,
     label |-> label,
     last_status |-> None]

\* SquareRadio::width
SquareRadio_width(r, w) == [r EXCEPT !.width = w]

\* SquareRadio::size
SquareRadio_size(r) == [width |-> Shrink, height |-> Shrink]

\* The width of the label's node: widget::text::layout with width self.width
\* in the limits next_to_each_other leaves beside the box and the spacing
label_node_width(r, label_width, max_width) ==
    LET limit == IF r.width.kind = "Fixed" THEN Min(r.width.px, max_width)
                 ELSE max_width
        avail == Max(limit - r.size - DEFAULT_SPACING, 0)
    IN  IF r.width.kind = "Shrink" THEN Min(label_width, avail) ELSE avail

\* SquareRadio::layout: the box alone, or the box, the spacing and the label
SquareRadio_layout(r, origin, label_width) ==
    IF r.label
    THEN Rectangle(origin,
                   r.size + DEFAULT_SPACING
                     + label_node_width(r, label_width,
                                        CHOOSE m \in RadioMaxWidths : TRUE))
    ELSE Rectangle(origin, r.size)

\* SquareRadio_update that takes a touch for a click
SquareRadio_update_on_touch(r, ev, bounds, c, sh) ==
    [radio |-> r,
     shell |-> IF ev \in {"LeftPressed", "FingerPressed"} /\ is_over(c, bounds)
               THEN capture_event(publish(sh, r.on_click))
               ELSE sh]

\* SquareRadio::update: a left press over the bounds publishes on_click and
\* captures the event; no field of the widget is written
SquareRadio_update(r, ev, bounds, c, sh) ==
    [radio |-> r,
     shell |-> IF ev = "LeftPressed" /\ is_over(c, bounds)
               THEN capture_event(publish(sh, r.on_click))
               ELSE sh]

\* SquareRadio::draw, lines 191-196: the status the style is taken for
SquareRadio_draw(r) ==
    IF r.last_status = None
    THEN RadioStatus("Active", r.is_selected)
    ELSE r.last_status

RadioBounds ==
    SquareRadio_layout(radio, CHOOSE x \in RadioOrigins : TRUE,
                       CHOOSE w \in LabelWidths : TRUE)

RadioObs(op) ==
    [op |-> op, event |-> "none", style |-> None,
     size |-> [width |-> Shrink, height |-> Shrink], bounds |-> Rectangle(0, 0)]

\* The application's view builds the radio of the next frame
RadioNew ==
    /\ \E v \in RadioValues, sel \in RadioSelections, l \in BOOLEAN :
            radio' = SquareRadio_new(v, sel, l)
    /\ shell' = NewShell
    /\ radio_obs' = RadioObs("new")
    /\ UNCHANGED <<pick_vars, cursor, bar_vars, ldraw, tree_vars, olayout>>

\* The view sets the width of the radio it has just built
RadioWidth ==
    /\ radio_obs.op = "new"
    /\ \E w \in RadioWidths : radio' = SquareRadio_width(radio, w)
    /\ shell' = NewShell
    /\ radio_obs' = RadioObs("width")
    /\ UNCHANGED <<pick_vars, cursor, bar_vars, ldraw, tree_vars, olayout>>

\* SquareRadio::size and SquareRadio::layout
RadioLayout ==
    /\ shell' = NewShell
    /\ radio_obs' = [RadioObs("layout") EXCEPT
                       !.size = SquareRadio_size(radio),
                       !.bounds = RadioBounds]
    /\ UNCHANGED <<pick_vars, cursor, radio, bar_vars, ldraw, tree_vars, olayout>>

\* The host delivers an event to SquareRadio::update
RadioDeliver(ev, c) ==
    LET u == SquareRadio_update(radio, ev, RadioBounds, c, NewShell)
    IN  /\ cursor' = c
        /\ radio' = u.radio
        /\ shell' = u.shell
        /\ radio_obs' = [RadioObs("update") EXCEPT !.event = ev]
        /\ UNCHANGED <<pick_vars, bar_vars, ldraw, tree_vars, olayout>>

RadioUpdate ==
    \E ev \in RadioEvents :
        IF ev \in {"CursorMoved", "FingerPressed"}
        THEN \E c \in RadioCursorPoints : RadioDeliver(ev, c)
        ELSE RadioDeliver(ev, cursor)

\* SquareRadio::draw; the observation keeps the event of the update that
\* directly precedes the draw
RadioDraw ==
    /\ shell' = NewShell
    /\ radio_obs' = [RadioObs("draw") EXCEPT
                       !.event = IF radio_obs.op = "update"
                                 THEN radio_obs.event ELSE "none",
                       !.style = SquareRadio_draw(radio)]
    /\ UNCHANGED <<pick_vars, cursor, radio, bar_vars, ldraw, tree_vars, olayout>>

----------------------------------------------------------------------------
(* ProgressBar *)

DEFAULT_GIRTH == 30

RangeEnds == (0 - 1)..2
BarValues == (0 - 2)..3

\* 2-D rectangles of the bar
Rect(x, y, width, height) == [x |-> x, y |-> y, width |-> width, height |-> height]

\* The lengths and girths an application sets, and the space its layout
\* offers: every length of a laid out bar is a multiple of every width of a
\* range
BarLengthSettings == {Fill, Fixed(0), Fixed(6)}
BarGirthSettings == {Fill, Fixed(6)}
BarLimits == {[width |-> w, height |-> h] : w \in {6, 12}, h \in {6, 12}}
BarOrigins == {[x |-> 1, y |-> 2]}

\* clamp that leaves a value above the range as it is
clamp_from_below(v, min, max) == IF v < min THEN min ELSE v

\* f32::clamp, which asserts min <= max
clamp(v, min, max) == IF v < min THEN min ELSE IF v > max THEN max ELSE v

\* ProgressBar::new; value.clamp(start, end) panics when start > end
ProgressBar_new(range_start, range_end, value) ==
    IF range_start > range_end
    THEN [panicked |-> TRUE, range_start |-> range_start, range_end |-> range_end,
          value |-> value, length |-> Fill, girth |-> Fixed(DEFAULT_GIRTH),
          is_vertical |-> FALSE, show_percentage |-> TRUE]
    ELSE [panicked |-> FALSE, range_start |-> range_start, range_end |-> range_end,
          value |-> clamp(value, range_start, range_end),
          length |-> Fill, girth |-> Fixed(DEFAULT_GIRTH),
          is_vertical |-> FALSE, show_percentage |-> TRUE]

\* ProgressBar::length
length(b, l) == [b EXCEPT !.length = l]

\* ProgressBar::girth
girth(b, g) == [b EXCEPT !.girth = g]

\* ProgressBar::vertical
vertical(b) == [b EXCEPT !.is_vertical = TRUE]

\* ProgressBar::percentage
percentage(b, show_percentage) == [b EXCEPT !.show_percentage = show_percentage]

\* ProgressBar::width
width(b) == IF b.is_vertical THEN b.girth ELSE b.length

\* ProgressBar::height
height(b) == IF b.is_vertical THEN b.length ELSE b.girth

\* ProgressBar::size
size(b) == [width |-> width(b), height |-> height(b)]

\* Limits::resolve along one axis for a widget without intrinsic size
resolve(l, max) ==
    CASE l.kind = "Fill" -> max
      [] l.kind = "Shrink" -> 0
      [] l.kind = "Fixed" -> Min(l.px, max)

\* ProgressBar::layout: layout::atomic(limits, width, height)
ProgressBar_layout(b, limits) ==
    [width |-> resolve(width(b), limits.width),
     height |-> resolve(height(b), limits.height)]

\* ProgressBar::draw, lines 237-243
active_progress_length(b, len) ==
    IF b.range_start >= b.range_end
    THEN 0
    ELSE (len * (b.value - b.range_start)) \div (b.range_end - b.range_start)

NoQuad == [drawn |-> FALSE, bounds |-> Rect(0, 0, 0, 0)]

\* filled_quad that fills a vertical bar from its top edge
filled_quad_from_top(b, bounds) ==
    LET len == IF b.is_vertical THEN bounds.height ELSE bounds.width
        active == active_progress_length(b, len)
    IN  IF active > 0
        THEN [drawn |-> TRUE,
              bounds |-> IF b.is_vertical
                         THEN Rect(bounds.x, bounds.y, bounds.width, active)
                         ELSE Rect(bounds.x, bounds.y, active, bounds.height)]
        ELSE NoQuad

\* ProgressBar::draw, lines 256-281: the quad of the progress made
filled_quad(b, bounds) ==
    LET len == IF b.is_vertical THEN bounds.height ELSE bounds.width
        active == active_progress_length(b, len)
    IN  IF active > 0
        THEN [drawn |-> TRUE,
              bounds |-> IF b.is_vertical
                         THEN Rect(bounds.x, bounds.y + bounds.height - active,
                                   bounds.width, active)
                         ELSE Rect(bounds.x, bounds.y, active, bounds.height)]
        ELSE NoQuad

NoText == [drawn |-> FALSE, number |-> 0, suffix |-> ""]

\* ProgressBar::draw, lines 283-305: format!("{}%", self.value)
percentage_text(b) ==
    IF b.show_percentage
    THEN [drawn |-> TRUE, number |-> b.value, suffix |-> "%"]
    ELSE NoText

BarObs(op) ==
    [op |-> op, value |-> 0, size |-> [width |-> Shrink, height |-> Shrink],
     bounds |-> Rect(0, 0, 0, 0), length |-> 0, active_progress_length |-> 0,
     filled |-> NoQuad, text |-> NoText]

\* The application's view builds a progress bar; a panic ends the program
BarNew ==
    /\ ~bar.panicked
    /\ \E s \in RangeEnds, e \in RangeEnds, v \in BarValues :
            /\ bar' = ProgressBar_new(s, e, v)
            /\ bar_obs' = [BarObs("new") EXCEPT !.value = v]
    /\ UNCHANGED <<pick_vars, cursor, shell, radio_vars, ldraw, tree_vars, olayout>>

\* The builders applied to a constructed bar
BarLength ==
    /\ ~bar.panicked
    /\ bar_obs.op \in {"new", "builder"}
    /\ \E l \in BarLengthSettings : bar' = length(bar, l)
    /\ bar_obs' = BarObs("builder")
    /\ UNCHANGED <<pick_vars, cursor, shell, radio_vars, ldraw, tree_vars, olayout>>

BarGirth ==
    /\ ~bar.panicked
    /\ bar_obs.op \in {"new", "builder"}
    /\ \E g \in BarGirthSettings : bar' = girth(bar, g)
    /\ bar_obs' = BarObs("builder")
    /\ UNCHANGED <<pick_vars, cursor, shell, radio_vars, ldraw, tree_vars, olayout>>

BarVertical ==
    /\ ~bar.panicked
    /\ bar_obs.op \in {"new", "builder"}
    /\ bar' = vertical(bar)
    /\ bar_obs' = BarObs("builder")
    /\ UNCHANGED <<pick_vars, cursor, shell, radio_vars, ldraw, tree_vars, olayout>>

BarPercentage ==
    /\ ~bar.panicked
    /\ bar_obs.op \in {"new", "builder"}
    /\ \E p \in BOOLEAN : bar' = percentage(bar, p)
    /\ bar_obs' = BarObs("builder")
    /\ UNCHANGED <<pick_vars, cursor, shell, radio_vars, ldraw, tree_vars, olayout>>

\* ProgressBar::size and ProgressBar::layout: the host places the node
BarLayout ==
    /\ ~bar.panicked
    /\ bar_obs.op \in {"new", "builder"}
    /\ \E limits \in BarLimits, o \in BarOrigins :
            LET node == ProgressBar_layout(bar, limits)
            IN  bar_obs' = [BarObs("layout") EXCEPT
                              !.size = size(bar),
                              !.bounds = Rect(o.x, o.y, node.width, node.height)]
    /\ UNCHANGED <<pick_vars, cursor, shell, radio_vars, bar, ldraw, tree_vars, olayout>>

\* ProgressBar::draw in the bounds of the layout
BarDraw ==
    /\ ~bar.panicked
    /\ bar_obs.op = "layout"
    /\ LET bounds == bar_obs.bounds
           len == IF bar.is_vertical THEN bounds.height ELSE bounds.width
       IN  bar_obs' = [bar_obs EXCEPT
                         !.op = "draw",
                         !.length = len,
                         !.active_progress_length = active_progress_length(bar, len),
                         !.filled = filled_quad(bar, bounds),
                         !.text = percentage_text(bar)]
    /\ UNCHANGED <<pick_vars, cursor, shell, radio_vars, bar, ldraw, tree_vars, olayout>>

----------------------------------------------------------------------------
(* menu::List::draw called on its own, with any bounds and viewport *)

DrawOptionHeights == 1..3
BoundsYs == {0, 2}
ViewportYs == (0 - 2)..(WinH + 2)
ViewportHeights == 0..4

DrawCall(o, s, h, hov, bounds_y, viewport) ==
    [called |-> FALSE, options |-> o, selected |-> s, option_height |-> h,
     hovered_option |-> hov, bounds |-> Rectangle(bounds_y, h * Len(o)),
     viewport |-> viewport, result |-> NoDraw]

\* The arguments a caller may hand to List::draw
DrawCalls ==
    {DrawCall(o, s, h, hov, by, Rectangle(vy, vh)) :
        o \in OptionLists, s \in Selections, h \in DrawOptionHeights,
        hov \in {None, 0}, by \in BoundsYs, vy \in ViewportYs, vh \in ViewportHeights}

DrawIdle == DrawCall(<<>>, {}, 1, None, 0, Rectangle(0, 0))

\* The call of List::draw with the arguments chosen
ListDraw ==
    /\ ~ldraw.called
    /\ LET w == MultiPickList_new(ldraw.options, ldraw.selected, FALSE, FALSE,
                                  ldraw.option_height)
       IN  ldraw' = [ldraw EXCEPT
                       !.called = TRUE,
                       !.result = List_draw(w, ldraw.hovered_option,
                                            ldraw.bounds, ldraw.viewport)]
    /\ UNCHANGED <<pick_vars, cursor, shell, radio_vars, bar_vars, tree_vars, olayout>>

----------------------------------------------------------------------------
(* The state slots of the host's tree: Tree::diff keeps a slot whose tag is  *)
(* the widget's tag and replaces it by the widget's state otherwise; the     *)
(* callbacks downcast the slot.                                              *)

NSlots == 2

Widgets == {"MultiPickList", "List", "SquareRadio"}
\* The widgets of the application: those of this repository and one whose
\* state is an Option<bool>
HostWidgets == Widgets \cup {"OptionBool"}

\* Tag::of::<T>() names the type T
Tag_of(type) == type

\* Widget::tag
tag(w) ==
    CASE w = "MultiPickList" -> Tag_of("State<Paragraph>")
      [] w = "List" -> Tag_of("Option<bool>")
      [] w = "SquareRadio" -> Tag_of("text::State<Paragraph>")
      [] w = "OptionBool" -> Tag_of("Option<bool>")

\* Widget::state: the type of the value stored
state_type(w) ==
    CASE w = "MultiPickList" -> "State<Paragraph>"
      [] w = "List" -> "ListState"
      [] w = "SquareRadio" -> "text::State<Paragraph>"
      [] w = "OptionBool" -> "Option<bool>"

\* The type the callbacks of a widget downcast the slot to
downcast_type(w) ==
    CASE w = "MultiPickList" -> "State<Paragraph>"
      [] w = "List" -> "ListState"
      [] w = "SquareRadio" -> "text::State<Paragraph>"
      [] w = "OptionBool" -> "Option<bool>"

\* Tree::empty
EmptySlot == [tag |-> Tag_of("()"), state |-> "()"]

\* Tree::diff on one slot
Tree_diff(slot, w) ==
    IF slot.tag = tag(w) THEN slot ELSE [tag |-> tag(w), state |-> state_type(w)]

TreeObs(op, i, w, ok) == [op |-> op, slot |-> i, widget |-> w, downcast_ok |-> ok]

TreeIdle ==
    /\ tree = [i \in 1..NSlots |-> EmptySlot]
    /\ tree_obs = TreeObs("none", 1, "none", TRUE)

\* The view puts widget w at slot i and the host diffs the tree against it;
\* a failed downcast has ended the program
TreeDiff ==
    /\ tree_obs.downcast_ok
    /\ \E i \in 1..NSlots, w \in HostWidgets :
            /\ tree' = [tree EXCEPT ![i] = Tree_diff(@, w)]
            /\ tree_obs' = TreeObs("diff", i, w, TRUE)
    /\ UNCHANGED <<pick_vars, cursor, shell, radio_vars, bar_vars, ldraw, olayout>>

\* A callback of the widget last diffed downcasts its slot
TreeCallback ==
    /\ tree_obs.downcast_ok
    /\ tree_obs.op \in {"diff", "callback"}
    /\ tree_obs' = TreeObs("callback", tree_obs.slot, tree_obs.widget,
                           tree[tree_obs.slot].state = downcast_type(tree_obs.widget))
    /\ UNCHANGED <<pick_vars, cursor, shell, radio_vars, bar_vars, ldraw, tree, olayout>>

----------------------------------------------------------------------------
(* menu::Overlay::layout called on its own *)

TargetHeights == {FieldH, FieldH + 1}
ContentHeights == 0..(WinH + 1)

LayoutCall(position_y, target_height, bounds_height, content) ==
    [called |-> FALSE, position_y |-> position_y, target_height |-> target_height,
     bounds_height |-> bounds_height, content |-> content,
     node |-> Rectangle(0, 0)]

\* The targets inside the window and the lists a menu may be opened for
LayoutCalls ==
    {LayoutCall(p, th, bh, c) :
        p \in 0..(WinH - FieldH - 1), th \in TargetHeights,
        bh \in {WinH, WinH + 1}, c \in ContentHeights}

LayoutIdle == LayoutCall(0, FieldH, WinH, 0)

\* The call of Overlay::layout with the arguments chosen
OverlayLayout ==
    /\ ~olayout.called
    /\ olayout' = [olayout EXCEPT
                     !.called = TRUE,
                     !.node = Overlay_node(olayout.position_y, olayout.target_height,
                                           olayout.bounds_height, olayout.content)]
    /\ UNCHANGED <<pick_vars, cursor, shell, radio_vars, bar_vars, ldraw, tree_vars>>

----------------------------------------------------------------------------
(* Specifications *)

HostStart ==
    /\ cursor = Unavailable
    /\ shell = NewShell

\* The pick list of the first frame: State::new in a fresh tree
PickStart(selections, callbacks) ==
    /\ widget \in {MultiPickList_new(o, s, a, b, h) :
                     o \in OptionLists, s \in selections,
                     a \in callbacks, b \in callbacks, h \in OptionHeights}
    /\ state = State_new
    /\ position \in Positions
    /\ obs = Obs("new")

PickIdle ==
    /\ widget = MultiPickList_new(<<>>, {}, FALSE, FALSE, CHOOSE h \in OptionHeights : TRUE)
    /\ state = State_new
    /\ position = CHOOSE pos \in Positions : TRUE
    /\ obs = Obs("new")

RadioStart ==
    /\ radio \in {SquareRadio_new(v, sel, l) :
                    v \in RadioValues, sel \in RadioSelections, l \in BOOLEAN}
    /\ radio_obs = RadioObs("new")

RadioIdle ==
    /\ radio = SquareRadio_new(1, None, FALSE)
    /\ radio_obs = RadioObs("new")

BarIdle ==
    /\ bar = ProgressBar_new(0, 1, 0)
    /\ bar_obs = BarObs("new")

\* The pick list with its menu, driven by the host; the selection is empty
Init ==
    /\ HostStart
    /\ PickStart({{}}, BOOLEAN)
    /\ RadioIdle
    /\ BarIdle
    /\ ldraw = DrawIdle
    /\ TreeIdle
    /\ olayout = LayoutIdle

Next ==
    \/ New(OptionLists, {{}})
    \/ Layout
    \/ Update(EventKinds)
    \/ MouseInteraction
    \/ Overlay
    \/ Draw

Spec == Init /\ [][Next]_vars

\* The pick list under pointer events, with any selection of the caller
SelectEvents == {"LeftPressed", "FingerPressed", "CursorMoved"}

InitSelect ==
    /\ HostStart
    /\ PickStart(Selections, {TRUE})
    /\ RadioIdle
    /\ BarIdle
    /\ ldraw = DrawIdle
    /\ TreeIdle
    /\ olayout = LayoutIdle

NextSelect ==
    \/ New(OptionLists, Selections)
    \/ Layout
    \/ Update(SelectEvents)
    \/ MouseInteraction
    \/ Overlay
    \/ Draw

SpecSelect == InitSelect /\ [][NextSelect]_vars

\* The pick list with any handle
Handles == {"Arrow", "Static", "Dynamic", "None"}

InitHandle ==
    /\ HostStart
    /\ PickStart({{}}, {FALSE})
    /\ RadioIdle
    /\ BarIdle
    /\ ldraw = DrawIdle
    /\ TreeIdle
    /\ olayout = LayoutIdle

\* The view sets the handle of the pick list it has just built
SetHandle ==
    /\ obs.op = "new"
    /\ \E h \in Handles : widget' = handle(widget, h)
    /\ shell' = NewShell
    /\ obs' = Obs("handle")
    /\ UNCHANGED <<state, position, cursor, radio_vars, bar_vars, ldraw, tree_vars, olayout>>

NextHandle ==
    \/ New(OptionLists, {{}})
    \/ SetHandle
    \/ Update(SelectEvents)
    \/ Draw

SpecHandle == InitHandle /\ [][NextHandle]_vars

\* The radio driven by the host
InitRadio ==
    /\ HostStart
    /\ PickIdle
    /\ RadioStart
    /\ BarIdle
    /\ ldraw = DrawIdle
    /\ TreeIdle
    /\ olayout = LayoutIdle

NextRadio ==
    \/ RadioNew
    \/ RadioWidth
    \/ RadioLayout
    \/ RadioUpdate
    \/ RadioDraw

SpecRadio == InitRadio /\ [][NextRadio]_vars

\* The progress bar built and drawn by the application
InitBar ==
    /\ HostStart
    /\ PickIdle
    /\ RadioIdle
    /\ BarIdle
    /\ ldraw = DrawIdle
    /\ TreeIdle
    /\ olayout = LayoutIdle

NextBar ==
    \/ BarNew
    \/ BarLength
    \/ BarGirth
    \/ BarVertical
    \/ BarPercentage
    \/ BarLayout
    \/ BarDraw

SpecBar == InitBar /\ [][NextBar]_vars

\* menu::List::draw as a function of its inputs
InitListDraw ==
    /\ HostStart
    /\ PickIdle
    /\ RadioIdle
    /\ BarIdle
    /\ ldraw \in DrawCalls
    /\ TreeIdle
    /\ olayout = LayoutIdle

NextListDraw == ListDraw

SpecListDraw == InitListDraw /\ [][NextListDraw]_vars

\* The host's tree diffed against the widgets of successive views
InitTree ==
    /\ HostStart
    /\ PickIdle
    /\ RadioIdle
    /\ BarIdle
    /\ ldraw = DrawIdle
    /\ TreeIdle
    /\ olayout = LayoutIdle

NextTree ==
    \/ TreeDiff
    \/ TreeCallback

SpecTree == InitTree /\ [][NextTree]_vars

\* menu::Overlay::layout as a function of its inputs
InitOverlayLayout ==
    /\ HostStart
    /\ PickIdle
    /\ RadioIdle
    /\ BarIdle
    /\ ldraw = DrawIdle
    /\ TreeIdle
    /\ olayout \in LayoutCalls

NextOverlayLayout == OverlayLayout

SpecOverlayLayout == InitOverlayLayout /\ [][NextOverlayLayout]_vars

----------------------------------------------------------------------------
(* Properties of the pick list *)

Published(sh, m) == \E i \in 1..Len(sh.published) : sh.published[i] = m
PublishedSelect(sh) ==
    \E i \in 1..Len(sh.published) : sh.published[i].name = "on_select"

\* The step is a call of MultiPickList::update with a press while closed and
\* the cursor over the field
OpeningStep ==
    /\ obs'.op = "update"
    /\ obs'.event \in Pressed
    /\ ~state.is_open
    /\ is_over(cursor', FieldBounds(position))

\* C1: a press on the field of a closed pick list opens it, publishes on_open
\* once if it is configured and captures the event; no other step publishes
\* on_open.
C1_Opening ==
    [][/\ OpeningStep =>
            /\ state'.is_open
            /\ shell'.captured
            /\ shell'.published = IF widget.on_open THEN <<OnOpen>> ELSE <<>>
       /\ Published(shell', OnOpen) => OpeningStep /\ widget.on_open]_vars

C1_Witness ==
    /\ obs.op = "update"
    /\ obs.event = "FingerPressed"
    /\ state.is_open
    /\ shell.captured
    /\ shell.published = <<OnOpen>>

\* The step is a press that reaches MultiPickList::update while the menu is open
ClosingStep ==
    /\ obs'.op = "update"
    /\ obs'.event \in Pressed
    /\ state.is_open
    /\ obs'.route = "overlay+widget"

\* C2: a press that reaches the pick list while it is open closes it wherever
\* the cursor is, resets the hovered option, publishes on_close once if it is
\* configured and captures the event; no other step publishes on_close.
C2_Closing ==
    [][/\ ClosingStep =>
            /\ ~state'.is_open
            /\ state'.hovered_option = None
            /\ shell'.captured
            /\ shell'.published = IF widget.on_close THEN <<OnClose>> ELSE <<>>
       /\ Published(shell', OnClose) => ClosingStep /\ widget.on_close]_vars

C2_Witness ==
    /\ obs.op = "update"
    /\ obs.event = "LeftPressed"
    /\ obs.route = "overlay+widget"
    /\ ~state.is_open
    /\ state.hovered_option = None
    /\ shell.published = <<OnClose>>
    /\ ~is_over(cursor, FieldBounds(position))

\* C3: a step that publishes on_select leaves the menu open and is captured
\* by the overlay, so MultiPickList::update does not run; and a left press
\* that directly follows a selection selects again.
C3_SelectKeepsOpen ==
    [][/\ PublishedSelect(shell') =>
            /\ state.is_open
            /\ state'.is_open
            /\ shell'.captured
            /\ obs'.route = "overlay"
       /\ (PublishedSelect(shell) /\ obs'.op = "update" /\ obs'.event = "LeftPressed") =>
            /\ PublishedSelect(shell')
            /\ state'.is_open]_vars

C3_Witness ==
    /\ obs.op = "update"
    /\ obs.event = "LeftPressed"
    /\ PublishedSelect(shell)
    /\ state.is_open
    /\ obs.route = "overlay"

\* C4: a left press with the cursor over the open menu is captured by the
\* overlay and leaves the menu open.
C4_PressOnMenuCaptured ==
    [][(/\ obs'.op = "update"
        /\ obs'.event = "LeftPressed"
        /\ state.is_open
        /\ is_over(cursor', Overlay_layout(position, widget)))
       => (obs'.route = "overlay" /\ state'.is_open)]_vars

\* C5: every call of MultiPickList::update computes the status from the state
\* after the event and the cursor: Opened{is_hovered} when open, else Hovered
\* when the cursor is over the field, else Active.
C5_Status ==
    (obs.op = "update" /\ obs.route # "overlay") =>
        obs.status =
            IF state.is_open
            THEN (IF is_over(cursor, FieldBounds(position))
                  THEN "Opened_hovered" ELSE "Opened")
            ELSE (IF is_over(cursor, FieldBounds(position))
                  THEN "Hovered" ELSE "Active")

C5_Witness ==
    /\ obs.op = "update"
    /\ obs.event = "LeftPressed"
    /\ obs.status = "Opened_hovered"
    /\ widget.last_status = "Hovered"

\* C7: is_open starts false and changes only in a call of
\* MultiPickList::update with a left press or a finger press.
C7_OpenFlagFrame ==
    /\ ~state.is_open
    /\ [][state'.is_open # state.is_open =>
            /\ obs'.op = "update"
            /\ obs'.event \in Pressed
            /\ obs'.route # "overlay"]_vars

C7_Witness ==
    /\ state.is_open
    /\ obs.op = "update"
    /\ obs.event = "ModifiersChanged"
    /\ state.keyboard_modifiers

----------------------------------------------------------------------------
(* Properties of the radio, the list's draw and the progress bar *)

\* C6: a draw that directly follows an update with RedrawRequested styles the
\* radio with Hovered{is_selected} when the cursor is over its bounds and
\* with Active{is_selected} otherwise.
C6_RadioStatus ==
    (radio_obs.op = "draw" /\ radio_obs.event = "RedrawRequested") =>
        radio_obs.style =
            RadioStatus(IF is_over(cursor, RadioBounds) THEN "Hovered" ELSE "Active",
                        radio.is_selected)

C9_NewTotal ==
    /\ ~bar.panicked
    /\ (bar_obs.op = "draw" /\ bar.range_start >= bar.range_end) =>
            bar_obs.active_progress_length = 0

\* C10: only a reconstruction changes options and selected; a draw ticks
\* exactly the drawn rows whose option is in the caller's selected; a
\* selection publishes on_select with the option of the hovered row and
\* nothing else.
C10_CallerOwnsSelection ==
    [][/\ obs'.op # "new" =>
            /\ widget'.options = widget.options
            /\ widget'.selected = widget.selected
       /\ obs'.op = "draw" =>
            obs'.list.ticked =
                {i \in obs'.list.rows : widget.options[i + 1] \in widget.selected}
       /\ PublishedSelect(shell') =>
            /\ state'.hovered_option \in 0..(Len(widget.options) - 1)
            /\ shell'.published =
                 <<Msg("on_select", widget.options[state'.hovered_option + 1])>>]_vars

C10_Witness ==
    /\ obs.op = "draw"
    /\ obs.list.ticked # {}
    /\ obs.list.rows \ obs.list.ticked # {}
    /\ widget.options[1] \notin widget.selected

----------------------------------------------------------------------------
(* Properties of the state slots and of the menu's placement *)

\* C11: the tag of every widget of the repository is the tag of the type of
\* its state, which is the type its callbacks downcast to, and every downcast
\* of a slot kept by the tag comparison succeeds.
C11_SlotTyping ==
    /\ (tree_obs.op = "diff" /\ tree_obs.widget \in Widgets) =>
            /\ tag(tree_obs.widget) = Tag_of(state_type(tree_obs.widget))
            /\ state_type(tree_obs.widget) = downcast_type(tree_obs.widget)
    /\ tree_obs.downcast_ok

\* C12: the menu is put directly under the target when the space below is
\* strictly greater than the space above, and directly on top of it
\* otherwise (also on a tie); its height is cut to the larger of the two
\* spaces.
C12_MenuPlacement ==
    olayout.called =>
        LET space_below ==
                olayout.bounds_height - olayout.position_y - olayout.target_height
            space_above == olayout.position_y
            larger == IF space_below >= space_above THEN space_below ELSE space_above
        IN  /\ space_below > space_above =>
                olayout.node.y = olayout.position_y + olayout.target_height
            /\ space_below <= space_above =>
                olayout.node.y + olayout.node.height = olayout.position_y
            /\ olayout.node.height =
                 (IF olayout.content <= larger THEN olayout.content ELSE larger)

C12_Witness ==
    /\ olayout.called
    /\ olayout.bounds_height - olayout.position_y - olayout.target_height
         = olayout.position_y
    /\ olayout.node.height > 0
    /\ olayout.node.height < olayout.content
    /\ olayout.node.y = 0

----------------------------------------------------------------------------
(* Properties of the progress bar *)

\* C13: for a range with start <= end, new stores the value clamped into
\* [start, end] (the value itself when inside, start when below, end when
\* above), and no other step changes the stored value or the range.
C13_ValueInRange ==
    [][/\ (bar_obs'.op = "new" /\ bar'.range_start <= bar'.range_end) =>
            /\ ~bar'.panicked
            /\ bar'.range_start <= bar'.value
            /\ bar'.value <= bar'.range_end
            /\ bar'.value =
                 (IF bar_obs'.value < bar'.range_start THEN bar'.range_start
                  ELSE IF bar_obs'.value > bar'.range_end THEN bar'.range_end
                  ELSE bar_obs'.value)
       /\ bar_obs'.op # "new" =>
            /\ bar'.value = bar.value
            /\ bar'.range_start = bar.range_start
            /\ bar'.range_end = bar.range_end]_vars

C13_Witness ==
    /\ bar_obs.op = "new"
    /\ bar.range_start < bar.range_end
    /\ bar_obs.value > bar.range_end
    /\ bar.value = bar.range_end

\* C14: the percentage is shown by default; when it is shown over a range
\* with start < end, the text is 100 * (value - start) / (end - start)
\* followed by '%'; with percentage(false) no text is drawn.
C14_PercentageText ==
    /\ bar_obs.op = "new" => bar.show_percentage
    /\ (bar_obs.op = "draw" /\ ~bar.show_percentage) => ~bar_obs.text.drawn
    /\ (bar_obs.op = "draw" /\ bar.show_percentage /\ bar.range_start < bar.range_end) =>
            /\ bar_obs.text.drawn
            /\ bar_obs.text.suffix = "%"
            /\ bar_obs.text.number * (bar.range_end - bar.range_start)
                 = 100 * (bar.value - bar.range_start)

\* C15: a bar is horizontal by default, with size and layout of width =
\* length and height = girth and the filled quad at the left edge with width
\* = active length; after vertical() the axes are swapped and the filled
\* quad has height = active length and its bottom edge on the bar's bottom
\* edge; the filled quad lies inside the bar's bounds.
C15_Orientation ==
    /\ bar_obs.op = "new" => ~bar.is_vertical
    /\ bar_obs.op = "layout" =>
            /\ bar_obs.size =
                 (IF bar.is_vertical
                  THEN [width |-> bar.girth, height |-> bar.length]
                  ELSE [width |-> bar.length, height |-> bar.girth])
            /\ bar_obs.bounds.width <=
                 (IF bar_obs.size.width.kind = "Fixed"
                  THEN bar_obs.size.width.px ELSE bar_obs.bounds.width)
            /\ bar_obs.bounds.height <=
                 (IF bar_obs.size.height.kind = "Fixed"
                  THEN bar_obs.size.height.px ELSE bar_obs.bounds.height)
    /\ (bar_obs.op = "draw" /\ bar_obs.filled.drawn) =>
            LET b == bar_obs.bounds
                f == bar_obs.filled.bounds
                active == bar_obs.active_progress_length
            IN  /\ IF bar.is_vertical
                   THEN /\ f.height = active
                        /\ f.y = b.y + b.height - active
                        /\ f.x = b.x
                        /\ f.width = b.width
                   ELSE /\ f.width = active
                        /\ f.x = b.x
                        /\ f.y = b.y
                        /\ f.height = b.height
                /\ b.x <= f.x
                /\ f.x + f.width <= b.x + b.width
                /\ b.y <= f.y
                /\ f.y + f.height <= b.y + b.height

C15_Witness ==
    /\ bar_obs.op = "draw"
    /\ bar.is_vertical
    /\ bar_obs.filled.drawn
    /\ bar_obs.filled.bounds.height < bar_obs.bounds.height
    /\ bar_obs.bounds.width # bar_obs.bounds.height

----------------------------------------------------------------------------
(* Properties of the radio's width and click *)

\* C16: a new radio has width Shrink, and after width(w) the size hint of
\* size() has width w.
C16_RadioWidth ==
    /\ radio_obs.op = "new" => radio.width = Shrink
    /\ radio_obs.op = "layout" => radio_obs.size.width = radio.width

\* C20: update publishes on_click once and captures the event exactly when
\* the event is a left press with the cursor over the layout bounds (the box
\* and the label together), selected or not; every other event publishes
\* nothing and is not captured; update changes no field of the radio.
C20_RadioClick ==
    [][radio_obs'.op = "update" =>
            /\ radio' = radio
            /\ IF /\ radio_obs'.event = "LeftPressed"
                  /\ cursor' # Unavailable
                  /\ RadioBounds.y <= cursor'
                  /\ cursor' < RadioBounds.y + RadioBounds.height
               THEN shell' = [published |-> <<radio.on_click>>, captured |-> TRUE]
               ELSE shell' = [published |-> <<>>, captured |-> FALSE]]_vars

C20_Witness ==
    /\ radio_obs.op = "update"
    /\ radio_obs.event = "LeftPressed"
    /\ radio.label
    /\ radio.is_selected
    /\ cursor >= RadioBounds.y + radio.size + DEFAULT_SPACING
    /\ shell.captured
    /\ Len(shell.published) = 1

----------------------------------------------------------------------------
(* Properties of the handle, the overlay and the hovered row *)

\* C17: a new pick list has the handle Arrow; draw renders the open icon of
\* a Dynamic handle exactly when is_open is true and its closed icon exactly
\* when is_open is false, and no handle text for Handle::None.
C17_DynamicHandle ==
    /\ obs.op = "new" => widget.handle = "Arrow"
    /\ (obs.op = "draw" /\ widget.handle = "Dynamic") =>
            /\ obs.handle = "open" <=> state.is_open
            /\ obs.handle = "closed" <=> ~state.is_open
    /\ (obs.op = "draw" /\ widget.handle = "None") => obs.handle = "no handle"
    /\ (obs.op = "draw" /\ widget.handle = "Arrow") => obs.handle = "ARROW_DOWN_ICON"

C17_Witness ==
    /\ obs.op = "draw"
    /\ widget.handle = "Dynamic"
    /\ state.is_open
    /\ obs.handle = "open"
    /\ state.hovered_option # None

\* C18: overlay returns a menu exactly when is_open is true; the menu's list
\* receives an event, and hovered_option is written by it, only while
\* is_open is true.
C18_OverlayPresence ==
    [][/\ obs'.op = "overlay" => (obs'.overlay <=> state.is_open)
       /\ obs'.route \in {"overlay", "overlay+widget"} => state.is_open
       /\ (state'.hovered_option # state.hovered_option) =>
            /\ state.is_open
            /\ obs'.op = "update"]_vars

C18_Witness ==
    /\ obs.op = "overlay"
    /\ obs.overlay
    /\ state.hovered_option # None

\* C19: a CursorMoved with the cursor inside the menu's list sets
\* hovered_option to the index i of the row whose bounds
\* [bounds.y + i * option_height, bounds.y + (i + 1) * option_height) hold
\* the cursor, which is the row a following draw highlights; a CursorMoved
\* with the cursor outside the list leaves hovered_option unchanged.
C19_HoverTracking ==
    [][/\ (obs'.op = "update" /\ obs'.event = "CursorMoved" /\ state.is_open) =>
            LET list == Overlay_layout(position, widget)
                y == cursor' - list.y
                h == widget.option_height
            IN  IF cursor' # Unavailable /\ 0 <= y /\ y < list.height
                THEN /\ state'.hovered_option # None
                     /\ h * state'.hovered_option <= y
                     /\ y < h * (state'.hovered_option + 1)
                ELSE state'.hovered_option = state.hovered_option
       /\ (obs.op = "update" /\ obs.event = "CursorMoved" /\ state.is_open
             /\ obs'.op = "draw" /\ is_over(cursor, Overlay_layout(position, widget))) =>
            /\ obs'.list.highlighted = {state.hovered_option}
            /\ \A q \in obs'.list.quads :
                    /\ q.y <= cursor
                    /\ cursor < q.y + q.height
                    /\ q.height = widget.option_height
            /\ obs'.list.quads # {}]_vars

C19_Witness ==
    /\ obs.op = "update"
    /\ obs.event = "CursorMoved"
    /\ state.is_open
    /\ state.hovered_option = 1
    /\ Overlay_layout(position, widget).y < position

====
